---- MODULE Spec2Model ----
(***************************************************************************)
(* Model of the Linux event loop of nih-plug (src/context/linux.rs):       *)
(* a bounded crossbeam channel of Message values, one worker thread that   *)
(* executes the queued tasks, an inline path for the thread that created   *)
(* the event loop, and the Drop implementation that shuts the worker down. *)
(***************************************************************************)
EXTENDS Integers, Sequences, FiniteSets, TLC

\* Capacity of the bounded channel (channel::bounded(TASK_QUEUE_CAPACITY)),
\* scaled down for model checking.
TASK_QUEUE_CAPACITY == 2

\* Number of do_maybe_async calls each calling thread makes.
MaxCalls == 2

\* The thread that called new_and_spawn, and the other calling threads.
Main == "main"
Producers == {"p1", "p2"}
Callers == {Main} \cup Producers

\* Message::Shutdown; Message::Task(task) is modelled by the task itself.
Shutdown == [by |-> "drop", n |-> 0]

\* The n-th task submitted by thread t.
Task(t, n) == [by |-> t, n |-> n]

AllTasks == {Task(t, n) : t \in Callers, n \in 1..MaxCalls}

VARIABLES
    main_thread_id,  \* LinuxEventLoop::main_thread_id
    worker_thread,   \* LinuxEventLoop::worker_thread: "Some" or "None"
    senderAlive,     \* LinuxEventLoop::worker_thread_channel not yet dropped
    queue,           \* the messages in the bounded channel, oldest first
    workerPc,        \* worker_thread(): "Waiting", "Executing", "Terminated"
    workerTask,      \* the task the worker is executing, as a sequence of length <= 1
    workerPanicked,  \* the worker thread ended by a panic inside execute()
    pc,              \* per calling thread: "idle" or "inline" (inside execute)
    inlineTask,      \* per calling thread: the task it executes inline, length <= 1
    calls,           \* per calling thread: number of do_maybe_async calls started
    ret,             \* per calling thread: the return values of its calls, in order
    dropPc,          \* Drop::drop: "live", "send", "take", "join", "done", "panicked"
    workerLog,       \* history: the tasks the worker passed to execute(), in order
    inlineLog,       \* history, per calling thread: the tasks it passed to execute()
    sent,            \* history: the Task messages accepted by the channel, in order
    sawFull,         \* history, per thread: whether the queue was full at each of its calls
    sawDisconnected, \* history, per thread: whether the receiver was gone at each of its calls
    aheadOfShutdown  \* history: the messages queued ahead of Shutdown when it was sent

\* The fields of LinuxEventLoop and the channel.
loop == <<main_thread_id, worker_thread, senderAlive, queue>>
\* The worker thread.
worker == <<workerPc, workerTask, workerLog, workerPanicked>>
\* The threads calling do_maybe_async.
callers == <<pc, inlineTask, calls, ret, inlineLog, sent, sawFull, sawDisconnected>>
\* The thread running drop.
dropper == <<dropPc, aheadOfShutdown>>

vars == <<loop, worker, callers, dropper>>

\* is_main_thread(): thread::current().id() == self.main_thread_id
IsMainThreadAlways(t) == TRUE
IsMainThreadNever(t) == FALSE
is_main_thread(t) == t = main_thread_id

\* crossbeam Sender::try_send on a bounded channel: never blocks; Err(Full)
\* leaves the channel as it was.
TrySendAcceptsWhenFull(q, m) ==
    [ok |-> TRUE, q |-> IF Len(q) < TASK_QUEUE_CAPACITY THEN Append(q, m) ELSE q]
TrySendOffByOne(q, m) ==
    IF Len(q) + 1 < TASK_QUEUE_CAPACITY
        THEN [ok |-> TRUE, q |-> Append(q, m)]
        ELSE [ok |-> FALSE, q |-> q]
try_send(q, m) ==
    IF Len(q) < TASK_QUEUE_CAPACITY
        THEN [ok |-> TRUE, q |-> Append(q, m)]
        ELSE [ok |-> FALSE, q |-> q]

\* crossbeam Sender::send on a bounded channel: blocks while the channel is
\* full (ready = FALSE), then appends the message.
SendIgnoresCapacity(q, m) == [ready |-> TRUE, q |-> Append(q, m)]
SendDropsWhenFull(q, m) == [ready |-> TRUE, q |-> try_send(q, m).q]
send(q, m) == [ready |-> Len(q) < TASK_QUEUE_CAPACITY, q |-> Append(q, m)]

\* crossbeam Receiver::recv: blocks while the channel is empty and a sender
\* is alive; delivers the oldest message; Err when empty and disconnected.
RecvNewest(q, alive) ==
    IF q # <<>> THEN [ready |-> TRUE, ok |-> TRUE, msg |-> q[Len(q)], q |-> SubSeq(q, 1, Len(q) - 1)]
    ELSE [ready |-> ~alive, ok |-> FALSE, msg |-> Shutdown, q |-> q]
RecvErrWhenEmpty(q, alive) ==
    IF q # <<>> THEN [ready |-> TRUE, ok |-> TRUE, msg |-> Head(q), q |-> Tail(q)]
    ELSE [ready |-> TRUE, ok |-> FALSE, msg |-> Shutdown, q |-> q]
recv(q, alive) ==
    IF q # <<>> THEN [ready |-> TRUE, ok |-> TRUE, msg |-> Head(q), q |-> Tail(q)]
    ELSE [ready |-> ~alive, ok |-> FALSE, msg |-> Shutdown, q |-> q]

\* The Receiver is owned by the worker thread (moved into its closure) and is
\* dropped when worker_thread() returns or unwinds; the channel is connected
\* while it lives.
Connected == workerPc # "Terminated"

\* JoinHandle::join returns once the thread has finished.
JoinDetached == TRUE
join == workerPc = "Terminated"

\* do_maybe_async(&self, ..) needs a shared borrow of the event loop, which
\* Rust grants only while drop(&mut self) has not begun.
SharedBorrowAfterDrop == TRUE
SharedBorrow == dropPc = "live"

\* drop(&mut self) needs the exclusive borrow: no call on &self in progress.
ExclusiveBorrow == \A t \in Callers : pc[t] = "idle"

\* State after new_and_spawn returned on thread Main.
Init ==
    /\ main_thread_id = Main
    /\ worker_thread = "Some"
    /\ senderAlive = TRUE
    /\ queue = <<>>
    /\ workerPc = "Waiting"
    /\ workerTask = <<>>
    /\ workerPanicked = FALSE
    /\ pc = [t \in Callers |-> "idle"]
    /\ inlineTask = [t \in Callers |-> <<>>]
    /\ calls = [t \in Callers |-> 0]
    /\ ret = [t \in Callers |-> <<>>]
    /\ dropPc = "live"
    /\ workerLog = <<>>
    /\ inlineLog = [t \in Callers |-> <<>>]
    /\ sent = <<>>
    /\ sawFull = [t \in Callers \cup {"drop"} |-> <<>>]
    /\ sawDisconnected = [t \in Callers |-> <<>>]
    /\ aheadOfShutdown = <<>>

DoMaybeAsyncInlineAfterDrain(t) ==
    /\ SharedBorrow
    /\ pc[t] = "idle"
    /\ calls[t] < MaxCalls
    /\ is_main_thread(t)
    /\ queue = <<>>
    /\ workerPc # "Executing"
    /\ LET task == Task(t, calls[t] + 1) IN
        /\ calls' = [calls EXCEPT ![t] = @ + 1]
        /\ pc' = [pc EXCEPT ![t] = "inline"]
        /\ inlineTask' = [inlineTask EXCEPT ![t] = <<task>>]
        /\ inlineLog' = [inlineLog EXCEPT ![t] = Append(@, task)]
        /\ sawFull' = [sawFull EXCEPT ![t] = Append(@, Len(queue) >= TASK_QUEUE_CAPACITY)]
        /\ sawDisconnected' = [sawDisconnected EXCEPT ![t] = Append(@, ~Connected)]
    /\ UNCHANGED <<loop, worker, dropper, ret, sent>>

\* do_maybe_async on thread t, main-thread branch: enter executor.execute(task).
DoMaybeAsyncInline(t) ==
    /\ SharedBorrow
    /\ pc[t] = "idle"
    /\ calls[t] < MaxCalls
    /\ is_main_thread(t)
    /\ LET task == Task(t, calls[t] + 1) IN
        /\ calls' = [calls EXCEPT ![t] = @ + 1]
        /\ pc' = [pc EXCEPT ![t] = "inline"]
        /\ inlineTask' = [inlineTask EXCEPT ![t] = <<task>>]
        /\ inlineLog' = [inlineLog EXCEPT ![t] = Append(@, task)]
        /\ sawFull' = [sawFull EXCEPT ![t] = Append(@, Len(queue) >= TASK_QUEUE_CAPACITY)]
        /\ sawDisconnected' = [sawDisconnected EXCEPT ![t] = Append(@, ~Connected)]
    /\ UNCHANGED <<loop, worker, dropper, ret, sent>>

\* execute(task) returns on thread t and do_maybe_async returns true.
DoMaybeAsyncInlineReturn(t) ==
    /\ pc[t] = "inline"
    /\ pc' = [pc EXCEPT ![t] = "idle"]
    /\ inlineTask' = [inlineTask EXCEPT ![t] = <<>>]
    /\ ret' = [ret EXCEPT ![t] = Append(@, TRUE)]
    /\ UNCHANGED <<loop, worker, dropper, calls, inlineLog, sent, sawFull,
                   sawDisconnected>>

DoMaybeAsyncBlockingSend(t) ==
    /\ SharedBorrow
    /\ pc[t] = "idle"
    /\ calls[t] < MaxCalls
    /\ ~is_main_thread(t)
    /\ LET task == Task(t, calls[t] + 1)
           r == send(queue, task) IN
        /\ Connected => r.ready
        /\ calls' = [calls EXCEPT ![t] = @ + 1]
        /\ queue' = IF Connected THEN r.q ELSE queue
        /\ ret' = [ret EXCEPT ![t] = Append(@, Connected)]
        /\ sent' = IF Connected THEN Append(sent, task) ELSE sent
        /\ sawFull' = [sawFull EXCEPT ![t] = Append(@, Len(queue) >= TASK_QUEUE_CAPACITY)]
        /\ sawDisconnected' = [sawDisconnected EXCEPT ![t] = Append(@, ~Connected)]
    /\ UNCHANGED <<main_thread_id, worker_thread, senderAlive, worker, dropper,
                   pc, inlineTask, inlineLog>>

\* do_maybe_async on thread t, other branch: try_send(Message::Task(task)).is_ok()
\* try_send fails with Disconnected, whatever the fill level, once the
\* receiver is gone.
DoMaybeAsyncTrySend(t) ==
    /\ SharedBorrow
    /\ pc[t] = "idle"
    /\ calls[t] < MaxCalls
    /\ ~is_main_thread(t)
    /\ LET task == Task(t, calls[t] + 1)
           r == IF Connected THEN try_send(queue, task)
                ELSE [ok |-> FALSE, q |-> queue] IN
        /\ calls' = [calls EXCEPT ![t] = @ + 1]
        /\ queue' = r.q
        /\ ret' = [ret EXCEPT ![t] = Append(@, r.ok)]
        /\ sent' = IF r.q # queue THEN Append(sent, task) ELSE sent
        /\ sawFull' = [sawFull EXCEPT ![t] = Append(@, Len(queue) >= TASK_QUEUE_CAPACITY)]
        /\ sawDisconnected' = [sawDisconnected EXCEPT ![t] = Append(@, ~Connected)]
    /\ UNCHANGED <<main_thread_id, worker_thread, senderAlive, worker, dropper,
                   pc, inlineTask, inlineLog>>

WorkerRecvWhileExecuting ==
    /\ workerPc # "Terminated"
    /\ LET r == recv(queue, senderAlive) IN
        /\ r.ready
        /\ queue' = r.q
        /\ IF r.ok /\ r.msg # Shutdown
             THEN /\ workerPc' = "Executing"
                  /\ workerTask' = <<r.msg>>
                  /\ workerLog' = Append(workerLog, r.msg)
             ELSE /\ workerPc' = "Terminated"
                  /\ UNCHANGED <<workerTask, workerLog>>
    /\ UNCHANGED <<main_thread_id, worker_thread, senderAlive, callers, dropper,
                   workerPanicked>>

\* worker_thread(): receiver.recv() returns and the match arm is entered.
WorkerRecv ==
    /\ workerPc = "Waiting"
    /\ LET r == recv(queue, senderAlive) IN
        /\ r.ready
        /\ queue' = r.q
        /\ IF r.ok /\ r.msg # Shutdown
             THEN /\ workerPc' = "Executing"
                  /\ workerTask' = <<r.msg>>
                  /\ workerLog' = Append(workerLog, r.msg)
             ELSE /\ workerPc' = "Terminated"
                  /\ UNCHANGED <<workerTask, workerLog>>
    /\ UNCHANGED <<main_thread_id, worker_thread, senderAlive, callers, dropper,
                   workerPanicked>>

\* worker_thread(): executor.execute(task) returns, back to the top of the loop.
WorkerExecuteReturn ==
    /\ workerPc = "Executing"
    /\ workerPc' = "Waiting"
    /\ workerTask' = <<>>
    /\ UNCHANGED <<loop, callers, dropper, workerLog, workerPanicked>>

\* worker_thread(): executor.execute(task) panics; the thread unwinds, which
\* drops the receiver, and the thread ends.
WorkerPanic ==
    /\ workerPc = "Executing"
    /\ workerPc' = "Terminated"
    /\ workerTask' = <<>>
    /\ workerPanicked' = TRUE
    /\ UNCHANGED <<loop, callers, dropper, workerLog>>

\* The owner releases the event loop and drop(&mut self) is entered.
DropBegin ==
    /\ dropPc = "live"
    /\ ExclusiveBorrow
    /\ dropPc' = "send"
    /\ sawFull' = [sawFull EXCEPT !["drop"] = Append(@, Len(queue) >= TASK_QUEUE_CAPACITY)]
    /\ UNCHANGED <<loop, worker, aheadOfShutdown, pc, inlineTask, calls, ret,
                   inlineLog, sent, sawDisconnected>>

DropWithoutShutdown ==
    /\ dropPc = "send"
    /\ dropPc' = "done"
    /\ senderAlive' = FALSE
    /\ UNCHANGED <<main_thread_id, worker_thread, queue, worker, callers,
                   aheadOfShutdown>>

\* drop: worker_thread_channel.send(Message::Shutdown).expect(..)
\* send fails, also when it was blocked on a full queue, once the receiver is
\* gone; expect then panics, drop unwinds and the fields are dropped.
DropSend ==
    /\ dropPc = "send"
    /\ IF Connected
         THEN /\ LET r == send(queue, Shutdown) IN
                    /\ r.ready
                    /\ queue' = r.q
              /\ aheadOfShutdown' = queue
              /\ dropPc' = "take"
              /\ UNCHANGED senderAlive
         ELSE /\ dropPc' = "panicked"
              /\ senderAlive' = FALSE
              /\ UNCHANGED <<queue, aheadOfShutdown>>
    /\ UNCHANGED <<main_thread_id, worker_thread, worker, callers>>

\* drop: self.worker_thread.take()
DropTake ==
    /\ dropPc = "take"
    /\ worker_thread' = "None"
    /\ dropPc' = IF worker_thread = "Some" THEN "join" ELSE "done"
    /\ senderAlive' = IF worker_thread = "Some" THEN senderAlive ELSE FALSE
    /\ UNCHANGED <<main_thread_id, queue, worker, callers, aheadOfShutdown>>

DropJoinIgnoresPanic ==
    /\ dropPc = "join"
    /\ join
    /\ dropPc' = "done"
    /\ senderAlive' = FALSE
    /\ UNCHANGED <<main_thread_id, worker_thread, queue, worker, callers,
                   aheadOfShutdown>>

\* drop: join_handle.join().expect(..): join returns Err when the worker
\* panicked and expect panics; otherwise drop returns. Either way the fields
\* are dropped.
DropJoin ==
    /\ dropPc = "join"
    /\ join
    /\ dropPc' = IF workerPanicked THEN "panicked" ELSE "done"
    /\ senderAlive' = FALSE
    /\ UNCHANGED <<main_thread_id, worker_thread, queue, worker, callers,
                   aheadOfShutdown>>

Next ==
    \/ \E t \in Callers : DoMaybeAsyncInline(t)
    \/ \E t \in Callers : DoMaybeAsyncInlineReturn(t)
    \/ \E t \in Callers : DoMaybeAsyncTrySend(t)
    \/ WorkerRecv
    \/ WorkerExecuteReturn
    \/ DropBegin
    \/ DropSend
    \/ DropTake
    \/ DropJoin

\* Every execute() call returns normally.
Spec == Init /\ [][Next]_vars

\* An execute() call on the worker thread may panic.
NextPanic ==
    \/ Next
    \/ WorkerPanic

SpecPanic == Init /\ [][NextPanic]_vars

\* Every execute() call returns, the worker thread is scheduled, and the
\* thread running drop is scheduled.
FairSpec ==
    /\ Spec
    /\ \A t \in Callers : WF_vars(DoMaybeAsyncInlineReturn(t))
    /\ WF_vars(WorkerRecv)
    /\ WF_vars(WorkerExecuteReturn)
    /\ WF_vars(DropSend)
    /\ WF_vars(DropTake)
    /\ WF_vars(DropJoin)

\* As FairSpec, for the executions in which execute() may panic on the
\* worker: an execute() call still ends, by returning or by panicking.
FairSpecPanic ==
    /\ SpecPanic
    /\ \A t \in Callers : WF_vars(DoMaybeAsyncInlineReturn(t))
    /\ WF_vars(WorkerRecv)
    /\ WF_vars(WorkerExecuteReturn \/ WorkerPanic)
    /\ WF_vars(DropSend)
    /\ WF_vars(DropTake)
    /\ WF_vars(DropJoin)

TypeOK ==
    /\ main_thread_id \in Callers
    /\ worker_thread \in {"Some", "None"}
    /\ senderAlive \in BOOLEAN
    /\ workerPc \in {"Waiting", "Executing", "Terminated"}
    /\ workerPanicked \in BOOLEAN
    /\ dropPc \in {"live", "send", "take", "join", "done", "panicked"}
    /\ \A t \in Callers : pc[t] \in {"idle", "inline"}

(***************************************************************************)
(* Helpers for the properties.                                             *)
(***************************************************************************)
Range(s) == {s[i] : i \in 1..Len(s)}
Count(s, x) == Cardinality({i \in 1..Len(s) : s[i] = x})
Last(s) == s[Len(s)]
IsTask(m) == m # Shutdown

\* The threads that are inside executor.execute().
InExecute ==
    {t \in Callers : pc[t] = "inline"}
        \cup (IF workerPc = "Executing" THEN {"worker"} ELSE {})

\* The n-th call of thread t has returned, with the given value.
Returned(t, n, b) == n <= Len(ret[t]) /\ ret[t][n] = b

\* The worker has executed the task to completion, exactly once.
ExecutedOnceByWorker(task) ==
    /\ Count(workerLog, task) = 1
    /\ workerTask # <<task>>

\* C1 (as stated): at most one thread is inside execute() at any time, the
\* main thread's inline execute and the worker's execute never overlap.
C1_ExecuteMutuallyExclusive == Cardinality(InExecute) <= 1

\* C1 (amended): execute() is entered only by the worker thread and, inline,
\* by the thread whose id is main_thread_id, never by another producer; the
\* two may overlap, so at most two threads are inside execute() at once.
C1_ExecuteOnlyMainAndWorker ==
    /\ InExecute \subseteq {main_thread_id, "worker"}
    /\ Cardinality(InExecute) <= 2

\* The main thread's inline execute overlaps the worker's execute.
C1_Witness ==
    /\ pc[Main] = "inline"
    /\ workerPc = "Executing"
    /\ workerTask[1].by \in Producers

\* C2: a call from a non-main thread made while the queue holds fewer than
\* TASK_QUEUE_CAPACITY messages returns true and enqueues the task, and every
\* task so accepted is eventually executed by the worker, exactly once.
C2_AcceptedEventuallyExecutedOnce ==
    /\ [][\A t \in Callers :
            (t # main_thread_id /\ calls'[t] = calls[t] + 1
                /\ Len(queue) < TASK_QUEUE_CAPACITY)
            => /\ Len(ret'[t]) = calls'[t]
               /\ Last(ret'[t]) = TRUE
               /\ queue' = Append(queue, Task(t, calls'[t]))]_vars
    /\ [](\A task \in AllTasks : Count(workerLog, task) <= 1)
    /\ \A task \in AllTasks :
            (task.by # main_thread_id /\ Returned(task.by, task.n, TRUE))
                ~> ExecutedOnceByWorker(task)

\* Both producers had tasks accepted and the worker executed all of them.
C2_Witness ==
    /\ \A t \in Producers : Returned(t, 1, TRUE)
    /\ \A t \in Producers : ExecutedOnceByWorker(Task(t, 1))
    /\ workerPc = "Waiting"

\* C3: a call from the thread whose id is main_thread_id never changes the
\* queue, enters execute() with its task on the calling thread, and returns
\* true after that execute, whatever the queue's fill level; its tasks never
\* pass through the channel or the worker.
C3_MainThreadInline ==
    /\ [][\A t \in Callers : t = main_thread_id =>
            /\ calls'[t] # calls[t] =>
                /\ queue' = queue
                /\ pc'[t] = "inline"
                /\ inlineTask'[t] = <<Task(t, calls'[t])>>
                /\ Last(inlineLog'[t]) = Task(t, calls'[t])
            /\ Len(ret'[t]) # Len(ret[t]) =>
                /\ queue' = queue
                /\ pc[t] = "inline" /\ pc'[t] = "idle"
                /\ inlineTask[t] = <<Task(t, Len(ret'[t]))>>
                /\ Last(ret'[t]) = TRUE]_vars
    /\ [](\A n \in 1..MaxCalls :
            /\ Task(main_thread_id, n) \notin
                  Range(queue) \cup Range(sent) \cup Range(workerLog)
            /\ Returned(main_thread_id, n, TRUE) =>
                  Count(inlineLog[main_thread_id], Task(main_thread_id, n)) = 1)

\* The main thread called while the queue was full, and the call returned true
\* with the queue still full.
C3_Witness ==
    /\ pc[Main] = "idle"
    /\ \E n \in 1..Len(ret[Main]) : sawFull[Main][n] /\ ret[Main][n]
    /\ Len(queue) = TASK_QUEUE_CAPACITY

\* C4: a call from a non-main thread made while the queue holds
\* TASK_QUEUE_CAPACITY messages returns false and leaves the queue unchanged;
\* a rejected task is never queued or executed, and the worker has executed at
\* most as many tasks as non-main calls returned true.
NonMainAccepted ==
    {task \in AllTasks : task.by # main_thread_id /\ Returned(task.by, task.n, TRUE)}
NonMainRejected ==
    {task \in AllTasks : task.by # main_thread_id /\ Returned(task.by, task.n, FALSE)}

C4_FullQueueRejects ==
    /\ [][\A t \in Callers :
            (t # main_thread_id /\ calls'[t] = calls[t] + 1
                /\ Len(queue) >= TASK_QUEUE_CAPACITY)
            => /\ Len(ret'[t]) = calls'[t]
               /\ Last(ret'[t]) = FALSE
               /\ queue' = queue]_vars
    /\ [](\A task \in NonMainRejected :
            task \notin Range(queue) \cup Range(workerLog) \cup Range(sent))
    /\ [](Len(workerLog) <= Cardinality(NonMainAccepted))

\* A task was rejected and the worker has run to its end without executing it.
C4_Witness ==
    /\ NonMainRejected # {}
    /\ workerPc = "Terminated"
    /\ dropPc = "done"
    /\ Len(workerLog) = Cardinality(NonMainAccepted)

\* C5: the worker executes the accepted tasks of each non-main producer in
\* the order in which that producer submitted them.
C5_PerProducerFifo ==
    \A i \in 1..Len(workerLog) : \A j \in 1..Len(workerLog) :
        (i < j /\ workerLog[i].by = workerLog[j].by)
            => workerLog[i].n < workerLog[j].n

\* The worker executed two tasks of each of two producers, interleaved.
C5_Witness ==
    /\ Len(workerLog) >= 4
    /\ workerLog[1].by # workerLog[2].by
    /\ \A t \in Producers : Cardinality({i \in 1..Len(workerLog) : workerLog[i].by = t}) >= 2

\* C6: Shutdown is consumed only after every Task sent before it, so once
\* drop has returned every accepted task was executed by the worker exactly
\* once, to completion.
C6_ShutdownAfterPendingTasks ==
    /\ [][(workerPc = "Waiting" /\ workerPc' = "Terminated") =>
            /\ queue # <<>> /\ Head(queue) = Shutdown
            /\ \A task \in Range(aheadOfShutdown) : ExecutedOnceByWorker(task)]_vars
    /\ [](dropPc = "done" =>
            \A task \in Range(sent) \cup Range(aheadOfShutdown) :
                ExecutedOnceByWorker(task))

\* drop returned after Shutdown had been queued behind a pending task.
C6_Witness ==
    /\ dropPc = "done"
    /\ Len(aheadOfShutdown) >= 1
    /\ \A task \in Range(aheadOfShutdown) : ExecutedOnceByWorker(task)

\* C7: when drop has returned, the worker thread is Terminated and the join
\* handle has been taken out of worker_thread.
C7_WorkerNeverOutlivesLoop ==
    dropPc = "done" => (workerPc = "Terminated" /\ worker_thread = "None")

\* drop returned after waiting for the worker to execute a task that was
\* still queued when Shutdown was sent.
C7_Witness ==
    /\ dropPc = "done"
    /\ workerLog # <<>>
    /\ Last(workerLog) \in Range(aheadOfShutdown)

\* C8: once drop has begun it eventually returns, also when the queue was
\* full at that moment.
C8_TeardownCompletes == (dropPc # "live") ~> (dropPc = "done")

\* drop began with a full queue and has returned.
C8_Witness ==
    /\ dropPc = "done"
    /\ sawFull["drop"] = <<TRUE>>

C10_FalseIffNonMainAndFull ==
    \A t \in Callers : \A n \in 1..Len(ret[t]) :
        (ret[t][n] = FALSE) <=> (t # main_thread_id /\ sawFull[t][n])

\* C10 (amended): a call returns false exactly when the caller is not the
\* main thread and try_send failed: the queue was full at the moment of the
\* call, or the channel was disconnected because the worker thread had ended.
C10_FalseIffNonMainAndSendFails ==
    \A t \in Callers : \A n \in 1..Len(ret[t]) :
        (ret[t][n] = FALSE)
            <=> (t # main_thread_id /\ (sawFull[t][n] \/ sawDisconnected[t][n]))

\* All outcomes have happened: a rejection on a full queue, an accepted
\* enqueue, an inline execution while the queue was full, and a rejection on
\* a queue with room after the worker had panicked.
C10_Witness ==
    /\ \E t \in Producers : \E n \in 1..Len(ret[t]) : ~ret[t][n] /\ sawFull[t][n]
    /\ \E t \in Producers : \E n \in 1..Len(ret[t]) : ret[t][n]
    /\ \E n \in 1..Len(ret[Main]) : ret[Main][n] /\ sawFull[Main][n]
    /\ \E t \in Producers : \E n \in 1..Len(ret[t]) :
            ~ret[t][n] /\ sawDisconnected[t][n] /\ ~sawFull[t][n]

\* C11: a do_maybe_async call from a non-main thread never waits: whenever
\* the instance is live and the thread has a call to make, the whole call can
\* be taken as the next step, returning without any step of the worker,
\* whatever the queue's fill level and the worker's state.
C11_NonMainCallNeverWaits ==
    \A t \in Callers :
        (t # main_thread_id /\ dropPc = "live" /\ pc[t] = "idle" /\ calls[t] < MaxCalls)
            => ENABLED (/\ DoMaybeAsyncTrySend(t)
                        /\ Len(ret'[t]) = Len(ret[t]) + 1
                        /\ worker' = worker)

\* A non-main call returned at once although the queue was full and the worker
\* was in the middle of a task; the queue is still full and the worker still
\* executing.
C11_Witness ==
    /\ dropPc = "live"
    /\ workerPc = "Executing"
    /\ Len(queue) = TASK_QUEUE_CAPACITY
    /\ Len(workerLog) = 1
    /\ \E t \in Producers : ret[t] # <<>> /\ Last(sawFull[t]) /\ ~Last(ret[t])

\* The Task messages of a sequence of messages, in order.
RECURSIVE TasksOf(_)
TasksOf(q) ==
    IF q = <<>> THEN <<>>
    ELSE IF IsTask(Head(q)) THEN <<Head(q)>> \o TasksOf(Tail(q))
    ELSE TasksOf(Tail(q))

IsPrefix(s, t) == Len(s) <= Len(t) /\ SubSeq(t, 1, Len(s)) = s

\* C12: the tasks the worker has started executing are, in order, a prefix of
\* the Task messages in the order the channel accepted them, across all
\* producers.
C12_WorkerLogPrefixOfSent == IsPrefix(workerLog, sent)

\* The worker has started tasks of both producers while a later task is still
\* queued behind them.
C12_Witness ==
    /\ Len(workerLog) >= 2
    /\ workerLog[1].by # workerLog[2].by
    /\ Len(sent) > Len(workerLog)
    /\ queue # <<>>

\* C13: the worker is in exactly one of Waiting, Executing and Terminated, and
\* holds a task exactly while Executing; a message leaves the queue only while
\* the worker is Waiting; once Terminated the worker stays Terminated and
\* neither dequeues nor executes anything.
C13_WorkerOneTaskAtATime ==
    /\ [](/\ workerPc \in {"Waiting", "Executing", "Terminated"}
          /\ Len(workerTask) = (IF workerPc = "Executing" THEN 1 ELSE 0)
          /\ workerPc = "Executing" => workerTask = <<Last(workerLog)>>)
    /\ [][(Len(queue') < Len(queue) \/ workerLog' # workerLog)
            => (workerPc = "Waiting" /\ workerTask = <<>>)]_vars
    /\ [][workerPc = "Terminated"
            => (/\ workerPc' = "Terminated"
                /\ workerLog' = workerLog
                /\ workerTask' = <<>>
                /\ Len(queue') >= Len(queue))]_vars

\* The worker executed two tasks one after the other and then terminated on
\* Shutdown.
C13_Witness ==
    /\ workerPc = "Terminated"
    /\ ~workerPanicked
    /\ Len(workerLog) >= 2
    /\ dropPc = "done"

\* The number of worker threads of the instance that have not terminated.
\* new_and_spawn spawns the only one; no operation spawns another.
LiveWorkers == IF workerPc # "Terminated" THEN 1 ELSE 0

\* Teardown has not yet enqueued the Shutdown message.
BeforeShutdownSent == dropPc \in {"live", "send"}

\* C14 (as stated): from the return of new_and_spawn until teardown enqueues
\* Shutdown, exactly one worker thread of the instance is not terminated.
C14_ExactlyOneWorkerUntilShutdown == BeforeShutdownSent => LiveWorkers = 1

\* C14 (amended): until teardown enqueues Shutdown exactly one worker thread
\* is not terminated and its join handle is held, unless a task's execute has
\* panicked on the worker; then the worker has terminated early, and a
\* terminated worker is never replaced.
C14_OneWorkerUnlessPanicked ==
    /\ []((BeforeShutdownSent /\ ~workerPanicked) =>
            (LiveWorkers = 1 /\ worker_thread = "Some"))
    /\ [](workerPanicked => LiveWorkers = 0)
    /\ [][LiveWorkers = 0 => LiveWorkers' = 0]_vars

\* The worker is still alive, in the middle of its third task or later, while
\* drop is blocked sending Shutdown to a full queue.
C14_Witness ==
    /\ dropPc = "send"
    /\ Len(queue) = TASK_QUEUE_CAPACITY
    /\ workerPc = "Executing"
    /\ ~workerPanicked
    /\ Len(workerLog) >= 2

\* C15: if the worker thread panicked while executing a task, drop never
\* returns normally, and once begun it ends in a panic on the destroying
\* thread instead of hanging, whatever the queue's fill level.
C15_WorkerPanicIsFatalAtTeardown ==
    /\ [](workerPanicked => dropPc # "done")
    /\ (workerPanicked /\ dropPc # "live") ~> (dropPc = "panicked")

\* The worker panicked and left the queue full; drop began on the full queue
\* and ended in a panic.
C15_Witness ==
    /\ workerPanicked
    /\ dropPc = "panicked"
    /\ sawFull["drop"] = <<TRUE>>
    /\ Len(queue) = TASK_QUEUE_CAPACITY

\* The tasks whose execute() on the worker has ended.
WorkerFinished ==
    IF workerPc = "Executing" THEN SubSeq(workerLog, 1, Len(workerLog) - 1)
    ELSE workerLog

\* C16: before the worker terminates, every task accepted from a non-main
\* thread is, exactly once, either still in the queue, or the task the worker
\* is executing, or among the tasks the worker has finished; nothing else is
\* in any of the three.
C16_AcceptedTasksConserved ==
    workerPc # "Terminated" =>
        \A task \in AllTasks :
            /\ Count(queue, task) + Count(workerTask, task) + Count(WorkerFinished, task)
                  = (IF task \in NonMainAccepted THEN 1 ELSE 0)
            /\ Count(sent, task) = (IF task \in NonMainAccepted THEN 1 ELSE 0)

\* One accepted task is finished, one is being executed and one is queued.
C16_Witness ==
    /\ workerPc = "Executing"
    /\ Len(WorkerFinished) >= 1
    /\ TasksOf(queue) # <<>>
    /\ Cardinality(NonMainAccepted) >= 3
    /\ NonMainRejected # {}

\* C17: the channel never holds more than TASK_QUEUE_CAPACITY messages, Task
\* and Shutdown messages counted together; it holds at most one Shutdown
\* message, and that one is the last message of the queue.
C17_QueueBounded ==
    /\ Len(queue) <= TASK_QUEUE_CAPACITY
    /\ Count(queue, Shutdown) <= 1
    /\ Shutdown \in Range(queue) => Last(queue) = Shutdown

\* drop had to wait for a slot, and Shutdown now fills the queue behind the
\* pending tasks.
C17_Witness ==
    /\ sawFull["drop"] = <<TRUE>>
    /\ Len(queue) = TASK_QUEUE_CAPACITY
    /\ Last(queue) = Shutdown
    /\ Len(TasksOf(queue)) = TASK_QUEUE_CAPACITY - 1

\* C18: when no task panics, recv never reports disconnection to the worker:
\* the sender lives until the worker has terminated, and the worker
\* terminates only by taking a Shutdown message from the head of the queue.
C18_WorkerEndsOnlyOnShutdown ==
    /\ [](senderAlive \/ workerPc = "Terminated")
    /\ [](workerPc = "Waiting" /\ queue = <<>> => senderAlive)
    /\ [][(workerPc # "Terminated" /\ workerPc' = "Terminated")
            => (/\ workerPc = "Waiting"
                /\ queue # <<>>
                /\ Head(queue) = Shutdown
                /\ queue' = Tail(queue))]_vars

\* The worker executed tasks, terminated on Shutdown, drop joined it and the
\* sender was dropped only then.
C18_Witness ==
    /\ dropPc = "done"
    /\ ~senderAlive
    /\ workerPc = "Terminated"
    /\ workerLog # <<>>
    /\ queue = <<>>

\* C19: the main thread's inline execution never waits for the queue: its
\* call can start, and its execute can return, as the next step in every
\* live state, whatever is queued or running on the worker, and without
\* changing either. So an inline task can complete while tasks accepted
\* before it are still queued (the witness).
C19_InlineBypassesQueue ==
    \A t \in Callers : t = main_thread_id =>
        /\ (dropPc = "live" /\ pc[t] = "idle" /\ calls[t] < MaxCalls)
              => ENABLED (/\ DoMaybeAsyncInline(t)
                          /\ queue' = queue
                          /\ worker' = worker)
        /\ pc[t] = "inline"
              => ENABLED (/\ DoMaybeAsyncInlineReturn(t)
                          /\ queue' = queue
                          /\ worker' = worker)

\* The queue was full when the main thread called and nothing has been
\* dequeued since: the inline task has completed while every task accepted
\* before it is still queued.
C19_Witness ==
    /\ pc[Main] = "idle"
    /\ ret[Main] = <<TRUE>>
    /\ sawFull[Main] = <<TRUE>>
    /\ workerLog = <<>>
    /\ Len(TasksOf(queue)) = TASK_QUEUE_CAPACITY
====
